---- MODULE Spec2Model ----
(***************************************************************************)
(* A model of the meshexp package (src/meshexp.go): the construction of a  *)
(* MeSHTree from a stream of "heading;seg.seg.seg" lines, and the queries  *)
(* Contains, Depth, Explode, Parents and Reference over the built tree.    *)
(*                                                                         *)
(* Strings are sequences of one-character strings, so that strings.Split,  *)
(* strings.Join and strings.ToLower are computed rather than assumed.      *)
(* A Go map is a function; a Tree is the nested function                   *)
(*   segment |-> [Reference, Children, Depth]                              *)
(* whose Children is again a Tree.  The empty map is the empty function.   *)
(***************************************************************************)
EXTENDS Integers, Sequences, FiniteSets, TLC

\* Number of lines the scanner delivers at most before the reader is exhausted.
MaxLines == 3

\* Longest tree location, in segments, among the well-formed input lines.
MaxPathLen == 3

\* The one-character path segments of the input lines.
Segments == {<<"1">>, <<"2">>}

\* The headings of the input lines (display form, case preserved).
Headings == {<<"A">>, <<"B">>, <<"c">>}

\* The terms the queries are asked about: every casing of the headings, a
\* term no line carries, and a term holding the separator.
QueryTerms ==
  {<<"A">>, <<"a">>, <<"B">>, <<"b">>, <<"C">>, <<"c">>, <<"D">>, <<"a", ";">>}

\* The empty Go map (make(Tree), make(map[string][][]string)) and empty slice.
EmptyMap == <<>>

----------------------------------------------------------------------------
\* strings.ToLower on one character of the model's alphabet.
LowerChar(c) ==
  CASE c = "A" -> "a"
    [] c = "B" -> "b"
    [] c = "C" -> "c"
    [] c = "D" -> "d"
    [] c = "X" -> "x"
    [] OTHER -> c

\* strings.ToLower.
ToLower(s) == [i \in DOMAIN s |-> LowerChar(s[i])]

\* Index of the first occurrence of character sep in s, 0 when absent.
IndexOf(s, sep) ==
  IF \E i \in DOMAIN s : s[i] = sep
    THEN CHOOSE i \in DOMAIN s : s[i] = sep /\ \A j \in 1..(i - 1) : s[j] # sep
    ELSE 0

\* strings.Split(s, sep) for a one-character separator: the substrings
\* between the separators; always at least one element.
RECURSIVE Split(_, _)
Split(s, sep) ==
  LET i == IndexOf(s, sep) IN
    IF i = 0 THEN <<s>>
    ELSE <<SubSeq(s, 1, i - 1)>> \o Split(SubSeq(s, i + 1, Len(s)), sep)

\* strings.Join(parts, sep).
RECURSIVE Join(_, _)
Join(parts, sep) ==
  IF Len(parts) = 0 THEN <<>>
  ELSE IF Len(parts) = 1 THEN parts[1]
  ELSE parts[1] \o <<sep>> \o Join(Tail(parts), sep)

\* fmt.Sprintf("%s;%s", term, strings.Join(location, ".")).
FormatReference(term, location) == term \o <<";">> \o Join(location, ".")

\* treeReferenceFromString with the test of line 198 written len(parts) < 2.
TreeReferenceErrorTooFewOnly(text) == Len(Split(text, ";")) < 2

\* treeReferenceFromString: whether the text yields an error.
TreeReferenceError(text) == Len(Split(text, ";")) # 2

\* treeReferenceFromString: the TreeReference of a text that yields no error.
TreeReferenceFromString(text) ==
  LET parts == Split(text, ";") IN
    [MedicalSubjectHeading |-> parts[1],
     TreeLocation |-> Split(parts[2], ".")]

----------------------------------------------------------------------------
\* The tree locations of the input lines: at each length the location on the
\* chain 1, 1.1, 1.1.1, ... and its sibling 2, 1.2, 1.1.2, ...
RECURSIVE ChainOfLen(_)
ChainOfLen(n) == IF n = 0 THEN <<>> ELSE Append(ChainOfLen(n - 1), <<"1">>)

PathsOfLen(n) == {Append(ChainOfLen(n - 1), s) : s \in Segments}

Paths == UNION {PathsOfLen(n) : n \in 1..MaxPathLen}

WellFormedLines == {FormatReference(h, p) : h \in Headings, p \in Paths}

\* "X" has no separator, "A;1;1" has two.
MalformedLines == {<<"X">>, <<"A", ";", "1", ";", "1">>}

Lines == WellFormedLines \cup MalformedLines

----------------------------------------------------------------------------
VARIABLES
  tree,    \* the MeSHTree under construction: [Tree, Locations]
  read,    \* the lines the scanner has delivered so far
  pc,      \* "scan", or how MeSHTreeFromReader ended: "done", "error", "panic"
  ret,     \* the returned *MeSHTree: <<>> is nil, <<t>> is &t
  err      \* the returned error: <<>> is nil

vars == <<tree, read, pc, ret, err>>

Nil == <<>>

\* The Node literal of lines 66-69 and 187-191.
NewNode(ref, depth) ==
  [Reference |-> ref, Children |-> EmptyMap, Depth |-> depth]

\* Node.addChild: whether the call panics (location[0] on an empty slice).
RECURSIVE AddChildPanics(_, _)
AddChildPanics(n, location) ==
  IF Len(location) = 0 THEN TRUE
  ELSE IF location[1] \in DOMAIN n.Children
    THEN AddChildPanics(n.Children[location[1]], Tail(location))
    ELSE FALSE

\* Node.addChild with line 187 keyed by the last segment of the location.
RECURSIVE AddChildAtLastSegment(_, _, _, _)
AddChildAtLastSegment(n, location, ref, depth) ==
  IF location[1] \in DOMAIN n.Children
    THEN [n EXCEPT !.Children =
            [@ EXCEPT ![location[1]] =
               AddChildAtLastSegment(@, Tail(location), ref, depth + 1)]]
    ELSE [n EXCEPT !.Children =
            (location[Len(location)] :> NewNode(ref, depth)) @@ @]

\* Node.addChild: the node after a call that does not panic.  The Go maps
\* are shared by reference, so the write to n.Children is seen through the
\* tree; here the updated node is returned and put back by the caller.
RECURSIVE AddChild(_, _, _, _)
AddChild(n, location, ref, depth) ==
  IF location[1] \in DOMAIN n.Children
    THEN [n EXCEPT !.Children =
            [@ EXCEPT ![location[1]] =
               AddChild(@, Tail(location), ref, depth + 1)]]
    ELSE [n EXCEPT !.Children =
            (location[1] :> NewNode(ref, depth)) @@ @]

\* Line 77: append the location to Locations[normalisedHeading].
Remember(locations, ref) ==
  LET normalisedHeading == ToLower(ref.MedicalSubjectHeading) IN
    IF normalisedHeading \in DOMAIN locations
      THEN [locations EXCEPT ![normalisedHeading] = Append(@, ref.TreeLocation)]
      ELSE (normalisedHeading :> <<ref.TreeLocation>>) @@ locations

Init ==
  /\ tree = [Tree |-> EmptyMap, Locations |-> EmptyMap]
  /\ read = <<>>
  /\ pc = "scan"
  /\ ret = Nil
  /\ err = Nil

\* The scanner delivers a next line.
Scanned(line) ==
  /\ pc = "scan"
  /\ Len(read) < MaxLines
  /\ read' = Append(read, line)

\* Lines 60-63: the line is malformed; the build returns nil and the error.
FormatError(line) ==
  /\ Scanned(line)
  /\ TreeReferenceError(line)
  /\ pc' = "error"
  /\ ret' = Nil
  /\ err' = <<"malformed tree reference", line>>
  /\ UNCHANGED tree

\* Lines 65-69 and 76-77: the first segment is new at the root.
AddFirstLayer(line) ==
  /\ Scanned(line)
  /\ ~TreeReferenceError(line)
  /\ LET ref == TreeReferenceFromString(line) IN
       /\ ref.TreeLocation[1] \notin DOMAIN tree.Tree
       /\ tree' = [Tree |-> (ref.TreeLocation[1] :> NewNode(ref, 0)) @@ tree.Tree,
                   Locations |-> Remember(tree.Locations, ref)]
  /\ UNCHANGED <<pc, ret, err>>

\* Lines 70-73 and 76-77: the first segment exists; addChild returns.
AddChildNode(line) ==
  /\ Scanned(line)
  /\ ~TreeReferenceError(line)
  /\ LET ref == TreeReferenceFromString(line) IN
       /\ ref.TreeLocation[1] \in DOMAIN tree.Tree
       /\ ~AddChildPanics(tree.Tree[ref.TreeLocation[1]], Tail(ref.TreeLocation))
       /\ tree' = [Tree |-> [tree.Tree EXCEPT ![ref.TreeLocation[1]] =
                               AddChild(@, Tail(ref.TreeLocation), ref, 0)],
                   Locations |-> Remember(tree.Locations, ref)]
  /\ UNCHANGED <<pc, ret, err>>

\* Lines 70-73: the first segment exists; addChild runs out of segments and
\* indexes an empty slice.  The goroutine panics: nothing is returned.
AddChildPanic(line) ==
  /\ Scanned(line)
  /\ ~TreeReferenceError(line)
  /\ LET ref == TreeReferenceFromString(line) IN
       /\ ref.TreeLocation[1] \in DOMAIN tree.Tree
       /\ AddChildPanics(tree.Tree[ref.TreeLocation[1]], Tail(ref.TreeLocation))
  /\ pc' = "panic"
  /\ UNCHANGED <<tree, ret, err>>

\* Lines 80-82: the reader fails; the build returns nil and the reader's error.
ScanError ==
  /\ pc = "scan"
  /\ pc' = "error"
  /\ ret' = Nil
  /\ err' = <<"read error">>
  /\ UNCHANGED <<tree, read>>

\* Line 84: the reader is exhausted; the build returns &tree.
Return ==
  /\ pc = "scan"
  /\ pc' = "done"
  /\ ret' = <<tree>>
  /\ err' = Nil
  /\ UNCHANGED <<tree, read>>

Next ==
  \/ \E line \in Lines : FormatError(line)
  \/ \E line \in Lines : AddFirstLayer(line)
  \/ \E line \in Lines : AddChildNode(line)
  \/ \E line \in Lines : AddChildPanic(line)
  \/ ScanError
  \/ Return

Spec == Init /\ [][Next]_vars

----------------------------------------------------------------------------
(***************************************************************************)
(* The queries.  t is a MeSHTree [Tree, Locations].  Go ranges over a map  *)
(* in an unspecified order, so a query that ranges over a Tree yields the  *)
(* SET of the sequences it can return, one per iteration order.            *)
(***************************************************************************)

\* The map t without key k.
Without(t, k) == [x \in DOMAIN t \ {k} |-> t[x]]

\* All concatenations r1 \o r2 \o ... with ri drawn from the i-th set.
RECURSIVE ConcatAll(_)
ConcatAll(sets) ==
  IF Len(sets) = 0 THEN {<<>>}
  ELSE {a \o b : a \in Head(sets), b \in ConcatAll(Tail(sets))}

\* Tree.At stopping at the level that holds the node of the location.
RECURSIVE AtLevelOfNode(_, _)
AtLevelOfNode(t, location) ==
  IF Len(location) = 0 THEN t
  ELSE IF location[1] \in DOMAIN t
    THEN IF Len(location) = 1 THEN t
         ELSE AtLevelOfNode(t[location[1]].Children, Tail(location))
    ELSE EmptyMap

\* Tree.At: the part of the tree at the location, that is the Children of
\* the node the location leads to; the empty Tree when a segment is absent.
RECURSIVE At(_, _)
At(t, location) ==
  IF Len(location) = 0 THEN t
  ELSE IF location[1] \in DOMAIN t
    THEN At(t[location[1]].Children, Tail(location))
    ELSE EmptyMap

\* Tree.Terms: the headings of the tree's nodes and of all their children,
\* in each order the ranges over the maps can produce.
RECURSIVE Terms(_)
Terms(t) ==
  IF DOMAIN t = {} THEN {<<>>}
  ELSE UNION {
         {<<t[k].Reference.MedicalSubjectHeading>> \o c \o r :
            c \in Terms(t[k].Children), r \in Terms(Without(t, k))}
         : k \in DOMAIN t}

\* MeSHTree.Explode.
Explode(t, term) ==
  IF ToLower(term) \in DOMAIN t.Locations
    THEN LET locations == t.Locations[ToLower(term)] IN
           ConcatAll([i \in DOMAIN locations |-> Terms(At(t.Tree, locations[i]))])
    ELSE {<<>>}

\* MeSHTree.Depth.
Depth(t, term) ==
  IF ToLower(term) \in DOMAIN t.Locations /\ Len(t.Locations[ToLower(term)]) > 0
    THEN Len(t.Locations[ToLower(term)][1])
    ELSE 0

\* MeSHTree.Contains.
Contains(t, term) == ToLower(term) \in DOMAIN t.Locations

\* Lines 129-135 of Parents ranging over the stored location and indexing loc.
RECURSIVE LocationsSameStoredRange(_, _, _)
LocationsSameStoredRange(loc, stored, i) ==
  IF i > Len(stored) THEN "eq"
  ELSE IF i > Len(loc) THEN "panic"
  ELSE IF stored[i] # loc[i] THEN "ne"
  ELSE LocationsSameStoredRange(loc, stored, i + 1)

\* Lines 129-135 of Parents, from index i on: "eq" when every segment of loc
\* equals the segment of the parent's stored location at the same index,
\* "ne" at the first difference, "panic" when the stored location is too
\* short to be indexed.
RECURSIVE LocationsSame(_, _, _)
LocationsSame(loc, stored, i) ==
  IF i > Len(loc) THEN "eq"
  ELSE IF i > Len(stored) THEN "panic"
  ELSE IF loc[i] # stored[i] THEN "ne"
  ELSE LocationsSame(loc, stored, i + 1)

\* The slices location[:len(location)-1] and location[:len(location)-2].
UpOne(location) == SubSeq(location, 1, Len(location) - 1)
UpTwo(location) == SubSeq(location, 1, Len(location) - 2)

\* Lines 122-141 of Parents for one location: the headings appended, in each
\* order the range over the map p can produce.
RECURSIVE ParentsIn(_, _)
ParentsIn(p, loc) ==
  IF DOMAIN p = {} THEN {<<>>}
  ELSE UNION {
         {(IF LocationsSame(loc, p[k].Reference.TreeLocation, 1) = "eq"
             THEN <<p[k].Reference.MedicalSubjectHeading>> ELSE <<>>) \o r :
            r \in ParentsIn(Without(p, k), loc)}
         : k \in DOMAIN p}

ParentsAt(t, location) ==
  IF Len(location) > 2
    THEN ParentsIn(At(t.Tree, UpTwo(location)), UpOne(location))
    ELSE {<<>>}

\* MeSHTree.Parents.
Parents(t, term) ==
  IF ToLower(term) \in DOMAIN t.Locations
    THEN LET locations == t.Locations[ToLower(term)] IN
           ConcatAll([i \in DOMAIN locations |-> ParentsAt(t, locations[i])])
    ELSE {<<>>}

\* MeSHTree.Parents: whether the call panics (index out of range, line 131).
ParentsPanics(t, term) ==
  /\ ToLower(term) \in DOMAIN t.Locations
  /\ \E i \in DOMAIN t.Locations[ToLower(term)] :
       LET location == t.Locations[ToLower(term)][i]
           p == At(t.Tree, UpTwo(location))
       IN /\ Len(location) > 2
          /\ \E k \in DOMAIN p :
               LocationsSame(UpOne(location), p[k].Reference.TreeLocation, 1) = "panic"

\* MeSHTree.Reference: whether the call panics (line 153).
ReferencePanics(t, term) ==
  /\ ToLower(term) \in DOMAIN t.Locations
  /\ \E i \in DOMAIN t.Locations[ToLower(term)] :
       TreeReferenceError(FormatReference(term, t.Locations[ToLower(term)][i]))

\* MeSHTree.Reference: the references returned by a call that does not panic.
Reference(t, term) ==
  IF ToLower(term) \in DOMAIN t.Locations
    THEN LET locations == t.Locations[ToLower(term)] IN
           [i \in DOMAIN locations |->
              TreeReferenceFromString(FormatReference(term, locations[i]))]
    ELSE Nil

----------------------------------------------------------------------------
(***************************************************************************)
(* Vocabulary of the properties.  These read the input lines and the tree  *)
(* independently of the build: a line's heading and location are taken     *)
(* from its text, a node is found by walking the segments of a position.   *)
(***************************************************************************)

\* The line has zero or more than one ';'.
Malformed(line) == Cardinality({i \in DOMAIN line : line[i] = ";"}) # 1

\* The text before and the dotted location after the ';' of a line that is
\* not malformed.
HeadingOf(line) == SubSeq(line, 1, IndexOf(line, ";") - 1)
PathOf(line) == Split(SubSeq(line, IndexOf(line, ";") + 1, Len(line)), ".")

\* p is a prefix of q; p is a proper prefix of q.
IsPrefix(p, q) == Len(p) <= Len(q) /\ SubSeq(q, 1, Len(p)) = p
StrictlyExtends(q, p) == IsPrefix(p, q) /\ Len(p) < Len(q)

\* Walking the segments of position from the root tree t ends at a node.
RECURSIVE Resolves(_, _)
Resolves(t, position) ==
  /\ Len(position) > 0
  /\ position[1] \in DOMAIN t
  /\ \/ Len(position) = 1
     \/ Resolves(t[position[1]].Children, Tail(position))

\* The node a resolving position leads to.
RECURSIVE NodeAt(_, _)
NodeAt(t, position) ==
  IF Len(position) = 1 THEN t[position[1]]
  ELSE NodeAt(t[position[1]].Children, Tail(position))

\* The elements of a sequence.
Range(r) == {r[i] : i \in DOMAIN r}

\* The build returned an Index; the Index it returned.
Built == pc = "done"
Index == ret[1]

\* The recorded paths of a term of the Index t.
PathsOfTerm(t, term) ==
  IF ToLower(term) \in DOMAIN t.Locations
    THEN Range(t.Locations[ToLower(term)])
    ELSE {}

\* No line read carries the term as its heading, under any casing.
Unknown(term) ==
  \A i \in DOMAIN read :
    Malformed(read[i]) \/ ToLower(HeadingOf(read[i])) # ToLower(term)

\* The term is recorded and each of its paths leads to a node without children.
LeafTerm(t, term) ==
  /\ PathsOfTerm(t, term) # {}
  /\ \A p \in PathsOfTerm(t, term) :
       Resolves(t.Tree, p) /\ DOMAIN NodeAt(t.Tree, p).Children = {}

----------------------------------------------------------------------------
C2_ExplodeHoldsAllBeneath ==
  Built =>
    \A i \in DOMAIN read : \A j \in DOMAIN read :
      StrictlyExtends(PathOf(read[j]), PathOf(read[i])) =>
        \A r \in Explode(Index, HeadingOf(read[i])) :
          HeadingOf(read[j]) \in Range(r)

\* C3: on a returned Index, every path stored in Locations leads, segment by
\* segment from the root Tree, to a node at that exact position.
C3_LocationsResolve ==
  Built =>
    \A h \in DOMAIN Index.Locations :
      \A i \in DOMAIN Index.Locations[h] :
        Resolves(Index.Tree, Index.Locations[h][i])

\* C4: a step that reads a well-formed line whose full path is the position
\* of an existing node leaves the build running and the tree unchanged, and
\* appends the path to Locations[lowercase(heading)].
C4_DuplicatePathAbsorbed ==
  [][(/\ pc = "scan"
      /\ Len(read') = Len(read) + 1
      /\ ~Malformed(read'[Len(read')])
      /\ Resolves(tree.Tree, PathOf(read'[Len(read')])))
     => (/\ pc' = "scan"
         /\ tree'.Tree = tree.Tree
         /\ LET h == ToLower(HeadingOf(read'[Len(read')]))
                p == PathOf(read'[Len(read')])
            IN /\ h \in DOMAIN tree'.Locations
               /\ tree'.Locations[h] =
                    (IF h \in DOMAIN tree.Locations
                       THEN tree.Locations[h] ELSE <<>>) \o <<p>>)]_vars

\* C5: a build over well-formed lines with pairwise distinct paths, in any
\* order, does not fail, and on the Index it returns Contains is true of
\* exactly the terms that are, under some casing, the heading of a line.
C5_ContainsAfterDistinctPaths ==
  (/\ \A i \in DOMAIN read : ~Malformed(read[i])
   /\ \A i \in DOMAIN read : \A j \in DOMAIN read :
        i # j => PathOf(read[i]) # PathOf(read[j]))
  => /\ pc # "panic"
     /\ Built =>
          \A term \in QueryTerms : Contains(Index, term) <=> ~Unknown(term)

\* The headings Parents is claimed to return for one location: those of the
\* entries at UpTwo(location) whose stored path equals UpOne(location).
RECURSIVE ClaimedParentsIn(_, _)
ClaimedParentsIn(p, loc) ==
  IF DOMAIN p = {} THEN {<<>>}
  ELSE UNION {
         {(IF p[k].Reference.TreeLocation = loc
             THEN <<p[k].Reference.MedicalSubjectHeading>> ELSE <<>>) \o r :
            r \in ClaimedParentsIn(Without(p, k), loc)}
         : k \in DOMAIN p}

ClaimedParents(t, term) ==
  IF ToLower(term) \in DOMAIN t.Locations
    THEN LET locations == t.Locations[ToLower(term)] IN
           ConcatAll([i \in DOMAIN locations |->
             IF Len(locations[i]) > 2
               THEN ClaimedParentsIn(At(t.Tree, UpTwo(locations[i])),
                                     UpOne(locations[i]))
               ELSE {<<>>}])
    ELSE {<<>>}

\* C6: on a returned Index, Parents(term) returns exactly the headings of the
\* entries of the Tree at p[:-2] whose stored path equals p[:-1], over the
\* recorded paths p of the term longer than two segments.
C6_ParentsMatchWholePath ==
  Built =>
    \A term \in QueryTerms : Parents(Index, term) = ClaimedParents(Index, term)

C8_QueriesNeverFail ==
  Built =>
    \A term \in QueryTerms :
      /\ ~ParentsPanics(Index, term)
      /\ ~ReferencePanics(Index, term)
      /\ Unknown(term) =>
           /\ ~Contains(Index, term)
           /\ Depth(Index, term) = 0
           /\ Explode(Index, term) = {<<>>}
           /\ Parents(Index, term) = {<<>>}
           /\ Reference(Index, term) = <<>>

\* On a returned Index, Parents of a known term compares a three-segment
\* path with a stored path that is longer than the position of its node,
\* and some term is unknown.
C8_Witness ==
  /\ Built
  /\ \E term \in QueryTerms : Unknown(term)
  /\ \E term \in QueryTerms : \E p \in PathsOfTerm(Index, term) :
       /\ Len(p) > 2
       /\ \E k \in DOMAIN At(Index.Tree, UpTwo(p)) :
            Len(At(Index.Tree, UpTwo(p))[k].Reference.TreeLocation) > Len(UpOne(p))

\* Every node of t, t being the tree at a position of level - 1 segments,
\* has a Depth of (number of segments of its position) - 1.
RECURSIVE DepthIsLevel(_, _)
DepthIsLevel(t, level) ==
  \A s \in DOMAIN t :
    /\ t[s].Depth = level - 1
    /\ DepthIsLevel(t[s].Children, level + 1)

\* C9: every node of the tree has a Depth equal to the number of segments of
\* its position minus one.
C9_DepthIsSegmentsBefore ==
  pc \in {"scan", "done"} => DepthIsLevel(tree.Tree, 1)

\* Every node of t, t being the tree at position, stores a reference whose
\* path has the node's position as a prefix.
RECURSIVE StoresOwnPosition(_, _)
StoresOwnPosition(t, position) ==
  \A s \in DOMAIN t :
    /\ IsPrefix(Append(position, s), t[s].Reference.TreeLocation)
    /\ StoresOwnPosition(t[s].Children, Append(position, s))

\* The entries of the Tree at p[:-2] that Parents takes as a parent for p.
MatchingEntries(t, p) ==
  {k \in DOMAIN At(t.Tree, UpTwo(p)) :
     LocationsSame(UpOne(p), At(t.Tree, UpTwo(p))[k].Reference.TreeLocation, 1) = "eq"}

\* C10: after any sequence of successful insertions every node stores a
\* reference whose path has the node's position as a prefix, and for every
\* recorded path longer than two segments at most one entry of the Tree at
\* p[:-2] matches in Parents.
C10_StoredPathExtendsPosition ==
  pc \in {"scan", "done"} =>
    /\ StoresOwnPosition(tree.Tree, <<>>)
    /\ \A h \in DOMAIN tree.Locations :
         \A i \in DOMAIN tree.Locations[h] :
           Len(tree.Locations[h][i]) > 2 =>
             Cardinality(MatchingEntries(tree, tree.Locations[h][i])) <= 1

\* A node stores a path longer than its position, and a recorded path of
\* three segments has two entries to compare with, one of them matching.
C10_Witness ==
  /\ pc = "scan"
  /\ \E s \in DOMAIN tree.Tree : \E c \in DOMAIN tree.Tree[s].Children :
       Len(tree.Tree[s].Children[c].Reference.TreeLocation) > 2
  /\ \E h \in DOMAIN tree.Locations : \E i \in DOMAIN tree.Locations[h] :
       LET p == tree.Locations[h][i] IN
         /\ Len(p) > 2
         /\ Cardinality(DOMAIN At(tree.Tree, UpTwo(p))) > 1
         /\ Cardinality(MatchingEntries(tree, p)) = 1

====
